---------------------------- MODULE Spec2Model ----------------------------
(***************************************************************************)
(* The domain state engine of Book_Shelf: BookExchangeProvider, the React  *)
(* context that owns users, books, messages and the current user, and the  *)
(* handlers it exports.  The current version of the provider is            *)
(* src/unnamed/part_002 (it is src/src/context/BookExchangeContext.tsx     *)
(* plus acceptBookRequest, uploadCoverImage and the asynchronous addBook). *)
(*                                                                         *)
(* One action models one invocation of a handler followed by the render    *)
(* that React performs before the next event is dispatched, so the state   *)
(* updates queued by one handler (setBooks and setMessages in              *)
(* acceptBookRequest, setUsers and setCurrentUser in registerUser) are     *)
(* applied in the same step.  addBook with a cover file suspends at its    *)
(* await: the call and its continuation are two steps.                     *)
(*                                                                         *)
(* Ids are Date.now().toString().  Only equality of ids is ever used and   *)
(* toString is injective on integers, so an id is modelled by the integer  *)
(* clock reading it was made from; the seed users have the ids "1", "2".   *)
(*                                                                         *)
(* searched is the last call of filterBooksBySearch with the array it      *)
(* returned, Null before the first call.  selectedConversation is the      *)
(* state of the Messages page (src/unnamed/part_000).  localStorage holds  *)
(* the four items the provider writes in its effect after every render in  *)
(* which one of users, books, messages, currentUser was set, and reads     *)
(* when it mounts; the effect is part of the step of the handler.          *)
(***************************************************************************)
EXTENDS Integers, Sequences, FiniteSets, TLC

VARIABLES users, books, messages, currentUser, pending, clock, toasts,
          searched, selectedConversation, localStorage

vars == <<users, books, messages, currentUser, pending, clock, toasts,
         searched, selectedConversation, localStorage>>

\* The state of the pages
page == <<searched, selectedConversation>>

store == <<users, books, messages, currentUser>>

---------------------------------------------------------------------------
(* Bounds of the model *)

MaxUsers == 3

MaxBooks == 2

MaxMessages == 2

\* The acceptances explored once a store holds MaxMessages requests
MaxAccepts == 2

MaxPending == 1

MaxTicks == 1

\* Records the callers have created and not deleted, beyond the seed users
MaxStore == 2

---------------------------------------------------------------------------
(* Values *)

\* The first reading of Date.now(); any reading is far above the seed ids.
ClockStart == 3

Ids == ClockStart .. (ClockStart + MaxTicks)

\* currentUser === null
Null == [null |-> TRUE]

\* an absent optional field (genre?, coverUrl?) and an absent coverFile
Undefined == "undefined"

initialUsers ==
    << [id |-> 1, name |-> "John Doe", email |-> "john@example.com",
        password |-> "password123", phone |-> "555-123-4567", role |-> "owner"],
       [id |-> 2, name |-> "Jane Smith", email |-> "jane@example.com",
        password |-> "password123", phone |-> "555-987-6543", role |-> "seeker"] >>

initialBooks == << >>

initialMessages == << >>

\* The inputs the handlers are called with.
Emails == {"john@example.com", "jane@example.com", "amy@example.com"}

Passwords == {"password123", "letmein"}

Roles == {"owner", "seeker"}

UserInputs ==
    { [name |-> "Amy", email |-> e, password |-> "letmein",
       phone |-> "555-000-0000", role |-> r] : e \in Emails, r \in Roles }

BookInputs ==
    { [title |-> "Dune", author |-> "Frank Herbert", genre |-> "Sci-Fi",
       location |-> "Boston", contact |-> "john@example.com",
       coverUrl |-> Undefined],
      [title |-> "1984", author |-> "George Orwell", genre |-> Undefined,
       location |-> "New York", contact |-> "john@example.com",
       coverUrl |-> "http://covers/1984.jpg"] }

CoverFiles == {Undefined, "cover.png"}

Contents == {"interested"}

\* receiverId is a free argument of sendMessage: the two seed users and any
\* clock reading, which is the id of a registered user or of no user at all.
ReceiverIds == {1, 2} \cup Ids

---------------------------------------------------------------------------
(* Helpers: the array methods the handlers use *)

Range(s) == { s[i] : i \in DOMAIN s }

\* Array.prototype.find: the index of the first element of s in hits, 0 when
\* find returns undefined
FirstIn(s, hits) ==
    IF \E i \in DOMAIN s : s[i] \in hits
    THEN CHOOSE i \in DOMAIN s :
            s[i] \in hits /\ \A j \in 1 .. (i - 1) : s[j] \notin hits
    ELSE 0

\* The ids of the records of a collection
IdsOf(s) == { s[i].id : i \in DOMAIN s }

\* Array.prototype.filter: the elements of s in keep, in the order of s
FilterIn(s, keep) == SelectSeq(s, LAMBDA x : x \in keep)

---------------------------------------------------------------------------
(* toasts holds what the last handler passed to toast(), in order, each    *)
(* toast named by what it signals:                                         *)
(*   "DuplicateEmail"       Registration failed (line 117)                 *)
(*   "InvalidCredentials"   Login failed (149); loginUser returns false    *)
(*   "Unauthenticated"      Not authorized / You must be logged in ...     *)
(*                          (188, 238, 257, 296, 365)                      *)
(*   "Forbidden"            Only book owners can add listings (197)        *)
(*   "NotFoundOrForbidden"  You can only delete your own books (268)       *)
(*   "BookNotFound"         Book not found (306)                           *)
(*   "RequestNotFound"      Request not found or cannot be accepted (380)  *)
(*   "CoverUploadFailed"    Upload failed (211); addBook goes on           *)
(* and the plain toasts "RegistrationSuccessful" (132), "LoginSuccessful"  *)
(* (143; loginUser returns true), "LoggedOut" (160), "BookAdded" (230),    *)
(* "BookDeleted" (277), "BookRequestSent" / "MessageSent" (329),           *)
(* "RequestAccepted" (411).                                                *)

\* The toasts of the early returns: the handler refused the operation.

Failures ==
    { "DuplicateEmail", "InvalidCredentials", "Unauthenticated", "Forbidden",
      "NotFoundOrForbidden", "BookNotFound", "RequestNotFound" }

---------------------------------------------------------------------------
(* Persistence: the useState initialisers read localStorage when the       *)
(* provider mounts, and an effect writes it after every render in which    *)
(* users, books, messages or currentUser was set.                          *)

\* getItem of a key that was never set
NoItem == [kind |-> "null"]

\* the item ""
EmptyItem == [kind |-> "empty"]

\* an item that holds JSON text, by the value the text denotes
JsonItem(value) == [kind |-> "json", value |-> value]

\* The optional properties of the stored types (genre?, coverUrl?)
OptionalKeys == {"genre", "coverUrl"}

\* JSON.stringify of an object: a property that is undefined is left out
StringifyObject(r) ==
    [ k \in { k \in DOMAIN r : k \in OptionalKeys => r[k] # Undefined } |-> r[k] ]

StringifyArray(s) == [ i \in DOMAIN s |-> StringifyObject(s[i]) ]

\* JSON.parse of an object: a property the text lacks reads as undefined
ParseObject(o, optional) ==
    [ k \in DOMAIN o \cup optional |-> IF k \in DOMAIN o THEN o[k] ELSE Undefined ]

ParseArray(a, optional) == [ i \in DOMAIN a |-> ParseObject(a[i], optional) ]

\* Mutant of Snapshot: a session is never saved as absent, without one the
\* item is written as the JSON text of the first seed user
SnapshotKeepsUser(us, bs, ms, cu) ==
    [bookExchangeUsers |-> JsonItem(StringifyArray(us)),
     bookExchangeBooks |-> JsonItem(StringifyArray(bs)),
     bookExchangeMessages |-> JsonItem(StringifyArray(ms)),
     bookExchangeCurrentUser |->
        JsonItem(StringifyObject(IF cu = Null THEN initialUsers[1] ELSE cu))]

\* The four setItem calls of the effect
Snapshot(us, bs, ms, cu) ==
    [bookExchangeUsers |-> JsonItem(StringifyArray(us)),
     bookExchangeBooks |-> JsonItem(StringifyArray(bs)),
     bookExchangeMessages |-> JsonItem(StringifyArray(ms)),
     bookExchangeCurrentUser |->
        IF cu = Null THEN EmptyItem ELSE JsonItem(StringifyObject(cu))]

\* localStorage with none of the four keys
EmptyStorage ==
    [bookExchangeUsers |-> NoItem, bookExchangeBooks |-> NoItem,
     bookExchangeMessages |-> NoItem, bookExchangeCurrentUser |-> NoItem]

\* saved ? ... : ...   (null and "" are falsy)
Truthy(item) == item.kind = "json"

LoadUsers(ls) ==
    IF Truthy(ls.bookExchangeUsers)
    THEN ParseArray(ls.bookExchangeUsers.value, {})
    ELSE initialUsers

\* Mutant of LoadBooks: an empty saved array counts as no snapshot and a
\* sample listing is supplied
LoadBooksSeeded(ls) ==
    IF Truthy(ls.bookExchangeBooks) /\ ls.bookExchangeBooks.value # << >>
    THEN ParseArray(ls.bookExchangeBooks.value, OptionalKeys)
    ELSE << [id |-> 1, title |-> "Dune", author |-> "Frank Herbert",
             genre |-> "Sci-Fi", location |-> "Boston",
             contact |-> "john@example.com", coverUrl |-> Undefined,
             ownerId |-> 1, ownerName |-> "John Doe", available |-> TRUE,
             createdAt |-> 1] >>

LoadBooks(ls) ==
    IF Truthy(ls.bookExchangeBooks)
    THEN ParseArray(ls.bookExchangeBooks.value, OptionalKeys)
    ELSE initialBooks

LoadMessages(ls) ==
    IF Truthy(ls.bookExchangeMessages)
    THEN ParseArray(ls.bookExchangeMessages.value, {})
    ELSE initialMessages

LoadCurrentUser(ls) ==
    IF Truthy(ls.bookExchangeCurrentUser)
    THEN ParseObject(ls.bookExchangeCurrentUser.value, {})
    ELSE Null

\* The effect runs: the state just set is written
save == localStorage' = Snapshot(users', books', messages', currentUser')

---------------------------------------------------------------------------
(* Initial state: the provider mounted with nothing in localStorage *)

\* The records the store holds beyond the seed users, counting a listing
\* whose cover is still being read.  registerUser, addBook and sendMessage
\* create a record only while HasRoom; acceptBookRequest is bounded by
\* MaxMessages alone, so a request can always be answered.
StoreSize ==
    (Len(users) - Len(initialUsers)) + Len(books) + Len(pending) + Len(messages)

HasRoom == StoreSize < MaxStore

Init ==
    /\ users = LoadUsers(EmptyStorage)
    /\ books = LoadBooks(EmptyStorage)
    /\ messages = LoadMessages(EmptyStorage)
    /\ currentUser = LoadCurrentUser(EmptyStorage)
    /\ pending = << >>
    /\ clock = ClockStart
    /\ toasts = << >>
    /\ searched = Null
    /\ selectedConversation = Null
    /\ localStorage = Snapshot(users, books, messages, currentUser)

\* The page is loaded again: the provider mounts from what localStorage
\* holds, a cover still being read is lost with the old page
mount ==
    /\ users' = LoadUsers(localStorage)
    /\ books' = LoadBooks(localStorage)
    /\ messages' = LoadMessages(localStorage)
    /\ currentUser' = LoadCurrentUser(localStorage)
    /\ pending' = << >>
    /\ toasts' = << >>
    /\ searched' = Null
    /\ selectedConversation' = Null
    /\ UNCHANGED clock
    /\ save

\* Time passes between two events.
Tick ==
    /\ clock < ClockStart + MaxTicks
    /\ clock' = clock + 1
    /\ UNCHANGED <<users, books, messages, currentUser, pending, toasts,
                   page, localStorage>>

---------------------------------------------------------------------------
(* Identity: registerUser, loginUser, logoutUser *)

\* Mutant of EmailTaken: users.every in place of users.some
EmailTakenEvery(us, email) == \A i \in DOMAIN us : us[i].email = email

\* users.some(user => user.email === userData.email)
EmailTaken(us, email) == \E i \in DOMAIN us : us[i].email = email

\* { ...userData, id: Date.now().toString() }
NewUser(userData, now) ==
    [id |-> now, name |-> userData.name, email |-> userData.email,
     password |-> userData.password, phone |-> userData.phone,
     role |-> userData.role]

\* Mutant of registerUser: the new user is stored but not made the session
registerUserNoSession(userData) ==
    IF EmailTaken(users, userData.email)
    THEN /\ toasts' = << "DuplicateEmail" >>
         /\ UNCHANGED <<users, books, messages, currentUser, pending, clock,
                        page, localStorage>>
    ELSE /\ Len(users) < MaxUsers /\ HasRoom
         /\ users' = Append(users, NewUser(userData, clock))
         /\ toasts' = << "RegistrationSuccessful" >>
         /\ UNCHANGED <<books, messages, currentUser, pending, clock, page>>
         /\ save

registerUser(userData) ==
    IF EmailTaken(users, userData.email)
    THEN /\ toasts' = << "DuplicateEmail" >>
         /\ UNCHANGED <<users, books, messages, currentUser, pending, clock,
                        page, localStorage>>
    ELSE /\ Len(users) < MaxUsers /\ HasRoom
         /\ users' = Append(users, NewUser(userData, clock))
         /\ currentUser' = NewUser(userData, clock)
         /\ toasts' = << "RegistrationSuccessful" >>
         /\ UNCHANGED <<books, messages, pending, clock, page>>
         /\ save

\* Mutant of FindUser: || in place of &&
FindUserEither(us, email, password) ==
    FirstIn(us, { u \in Range(us) : u.email = email \/ u.password = password })

\* users.find(u => u.email === email && u.password === password)
FindUser(us, email, password) ==
    FirstIn(us, { u \in Range(us) : u.email = email /\ u.password = password })

loginUser(email, password) ==
    LET user == FindUser(users, email, password) IN
    IF user # 0
    THEN /\ currentUser' = users[user]
         /\ toasts' = << "LoginSuccessful" >>
         /\ UNCHANGED <<users, books, messages, pending, clock, page>>
         /\ save
    ELSE /\ toasts' = << "InvalidCredentials" >>
         /\ UNCHANGED <<users, books, messages, currentUser, pending, clock,
                        page, localStorage>>

logoutUser ==
    /\ currentUser' = Null
    /\ toasts' = << "LoggedOut" >>
    /\ UNCHANGED <<users, books, messages, pending, clock, page>>
    /\ save

---------------------------------------------------------------------------
(* Listings: addBook (with uploadCoverImage), toggleBookAvailability,      *)
(* deleteBook                                                              *)

\* The FileReader result of readAsDataURL(file)
DataUrl(file) == "data:cover.png"

\* Mutant of NewBook: available is left out of the literal
NewBookUnlisted(bookData, coverUrl, user, now) ==
    [id |-> now, title |-> bookData.title, author |-> bookData.author,
     genre |-> bookData.genre, location |-> bookData.location,
     contact |-> bookData.contact, coverUrl |-> coverUrl,
     ownerId |-> user.id, ownerName |-> user.name, available |-> FALSE,
     createdAt |-> now]

\* newBook, built after the await from the currentUser the call captured
NewBook(bookData, coverUrl, user, now) ==
    [id |-> now, title |-> bookData.title, author |-> bookData.author,
     genre |-> bookData.genre, location |-> bookData.location,
     contact |-> bookData.contact, coverUrl |-> coverUrl,
     ownerId |-> user.id, ownerName |-> user.name, available |-> TRUE,
     createdAt |-> now]

\* Mutant of AddBookGuard: the role check is missing
AddBookGuardNoRole(cu) == IF cu = Null THEN "Unauthenticated" ELSE "ok"

\* The guards of addBook: the toast of the early return it takes, or "ok"
AddBookGuard(cu) ==
    IF cu = Null THEN "Unauthenticated"
    ELSE IF cu.role # "owner" THEN "Forbidden"
    ELSE "ok"

\* addBook up to its await (no coverFile: the whole handler)
addBook(bookData, coverFile) ==
    LET guard == AddBookGuard(currentUser) IN
    IF guard # "ok"
    THEN /\ toasts' = << guard >>
         /\ UNCHANGED <<users, books, messages, currentUser, pending, clock,
                        page, localStorage>>
    ELSE IF coverFile # Undefined
    THEN /\ Len(pending) < MaxPending /\ HasRoom
         /\ pending' = Append(pending, [bookData |-> bookData,
                                        coverFile |-> coverFile,
                                        currentUser |-> currentUser])
         /\ toasts' = << >>
         /\ UNCHANGED <<users, books, messages, currentUser, clock, page,
                        localStorage>>
    ELSE /\ Len(books) < MaxBooks /\ HasRoom
         /\ books' = Append(books,
                        NewBook(bookData, bookData.coverUrl, currentUser, clock))
         /\ toasts' = << "BookAdded" >>
         /\ UNCHANGED <<users, messages, currentUser, pending, clock, page>>
         /\ save

Without(s, i) == SubSeq(s, 1, i - 1) \o SubSeq(s, i + 1, Len(s))

\* Mutant of uploadResolved: the continuation reads the session of the
\* moment the cover is read, not the one addBook was called under
uploadResolvedLateSession(i) ==
    /\ i \in DOMAIN pending
    /\ Len(books) < MaxBooks
    /\ pending' = Without(pending, i)
    /\ UNCHANGED <<users, messages, currentUser, clock, page>>
    /\ IF AddBookGuard(currentUser) # "ok"
       THEN /\ toasts' = << AddBookGuard(currentUser) >>
            /\ UNCHANGED <<books, localStorage>>
       ELSE /\ books' = Append(books,
                          NewBook(pending[i].bookData,
                                  DataUrl(pending[i].coverFile),
                                  currentUser, clock))
            /\ toasts' = << "BookAdded" >>
            /\ save

\* reader.onload: the promise resolves and addBook continues after its await
uploadResolved(i) ==
    /\ i \in DOMAIN pending
    /\ Len(books) < MaxBooks
    /\ LET p == pending[i] IN
       books' = Append(books,
                   NewBook(p.bookData, DataUrl(p.coverFile), p.currentUser, clock))
    /\ pending' = Without(pending, i)
    /\ toasts' = << "BookAdded" >>
    /\ UNCHANGED <<users, messages, currentUser, clock, page>>
    /\ save

\* Mutant of uploadRejected: the catch returns, no listing is created
uploadRejectedAborts(i) ==
    /\ i \in DOMAIN pending
    /\ pending' = Without(pending, i)
    /\ toasts' = << "CoverUploadFailed" >>
    /\ UNCHANGED <<users, books, messages, currentUser, clock, page,
                   localStorage>>

\* reader.onerror: the promise rejects, the catch toasts, addBook continues
uploadRejected(i) ==
    /\ i \in DOMAIN pending
    /\ Len(books) < MaxBooks
    /\ LET p == pending[i] IN
       books' = Append(books,
                   NewBook(p.bookData, p.bookData.coverUrl, p.currentUser, clock))
    /\ pending' = Without(pending, i)
    /\ toasts' = << "CoverUploadFailed", "BookAdded" >>
    /\ UNCHANGED <<users, messages, currentUser, clock, page>>
    /\ save

\* Mutant of toggleBookAvailability: neither the session nor the owner is
\* checked
toggleBookAvailabilityUnchecked(bookId) ==
    /\ books' = [ i \in DOMAIN books |->
                    IF books[i].id = bookId
                    THEN [books[i] EXCEPT !.available = ~books[i].available]
                    ELSE books[i] ]
    /\ toasts' = << >>
    /\ UNCHANGED <<users, messages, currentUser, pending, clock, page>>
    /\ save

\* book.id === bookId && book.ownerId === currentUser.id
ToggleTargets(bs, bookId, cu) ==
    { i \in DOMAIN bs : bs[i].id = bookId /\ bs[i].ownerId = cu.id }

toggleBookAvailability(bookId) ==
    IF currentUser = Null
    THEN /\ toasts' = << "Unauthenticated" >>
         /\ UNCHANGED <<users, books, messages, currentUser, pending, clock,
                        page, localStorage>>
    ELSE /\ books' = [ i \in DOMAIN books |->
                        IF i \in ToggleTargets(books, bookId, currentUser)
                        THEN [books[i] EXCEPT !.available = ~books[i].available]
                        ELSE books[i] ]
         /\ toasts' = << >>
         /\ UNCHANGED <<users, messages, currentUser, pending, clock, page>>
         /\ save

\* books.find(b => b.id === bookId)
FindBook(bs, bookId) == FirstIn(bs, { b \in Range(bs) : b.id = bookId })

\* Mutant of DeleteRefused: only !book is checked
DeleteRefusedMissingOnly(bs, bookId, cu) == FindBook(bs, bookId) = 0

\* !book || book.ownerId !== currentUser.id
DeleteRefused(bs, bookId, cu) ==
    LET book == FindBook(bs, bookId) IN
    book = 0 \/ bs[book].ownerId # cu.id

\* Mutant of deleteBook: the messages about the listing go with it
deleteBookCascade(bookId) ==
    IF currentUser = Null
    THEN /\ toasts' = << "Unauthenticated" >>
         /\ UNCHANGED <<users, books, messages, currentUser, pending, clock,
                        page, localStorage>>
    ELSE IF DeleteRefused(books, bookId, currentUser)
    THEN /\ toasts' = << "NotFoundOrForbidden" >>
         /\ UNCHANGED <<users, books, messages, currentUser, pending, clock,
                        page, localStorage>>
    ELSE /\ books' = FilterIn(books, { b \in Range(books) : b.id # bookId })
         /\ messages' = FilterIn(messages,
                           { m \in Range(messages) : m.bookId # bookId })
         /\ toasts' = << "BookDeleted" >>
         /\ UNCHANGED <<users, currentUser, pending, clock, page>>
         /\ save

deleteBook(bookId) ==
    IF currentUser = Null
    THEN /\ toasts' = << "Unauthenticated" >>
         /\ UNCHANGED <<users, books, messages, currentUser, pending, clock,
                        page, localStorage>>
    ELSE IF DeleteRefused(books, bookId, currentUser)
    THEN /\ toasts' = << "NotFoundOrForbidden" >>
         /\ UNCHANGED <<users, books, messages, currentUser, pending, clock,
                        page, localStorage>>
    ELSE /\ books' = FilterIn(books, { b \in Range(books) : b.id # bookId })
         /\ toasts' = << "BookDeleted" >>
         /\ UNCHANGED <<users, messages, currentUser, pending, clock, page>>
         /\ save

---------------------------------------------------------------------------
(* Search: filterBooksBySearch.  searched holds the last call and what it  *)
(* returned.                                                               *)

\* String.prototype.toLowerCase on the letters the inputs use
UpperCase == "ABCDEFGHIJKLMNOPQRSTUVWXYZ"

LowerCase == "abcdefghijklmnopqrstuvwxyz"

LowerChar(c) ==
    IF \E i \in 1 .. Len(UpperCase) : SubSeq(UpperCase, i, i) = c
    THEN LET i == CHOOSE i \in 1 .. Len(UpperCase) : SubSeq(UpperCase, i, i) = c
         IN SubSeq(LowerCase, i, i)
    ELSE c

RECURSIVE toLowerCase(_)
toLowerCase(str) ==
    IF Len(str) = 0 THEN ""
    ELSE LowerChar(SubSeq(str, 1, 1)) \o toLowerCase(SubSeq(str, 2, Len(str)))

\* String.prototype.includes
includes(str, searchString) ==
    \E i \in 0 .. (Len(str) - Len(searchString)) :
       SubSeq(str, i + 1, i + Len(searchString)) = searchString

\* Mutant of filterBooksBySearch: the search string is not lower-cased
filterBooksBySearchRaw(bs, search) ==
    SelectSeq(bs, LAMBDA book :
        \/ includes(toLowerCase(book.title), search)
        \/ includes(toLowerCase(book.author), search)
        \/ /\ book.genre \notin {Undefined, ""}
           /\ includes(toLowerCase(book.genre), search)
        \/ includes(toLowerCase(book.location), search))

filterBooksBySearch(bs, search) ==
    LET lowerSearch == toLowerCase(search) IN
    SelectSeq(bs, LAMBDA book :
        \/ includes(toLowerCase(book.title), lowerSearch)
        \/ includes(toLowerCase(book.author), lowerSearch)
        \/ /\ book.genre \notin {Undefined, ""}
           /\ includes(toLowerCase(book.genre), lowerSearch)
        \/ includes(toLowerCase(book.location), lowerSearch))

\* A caller calls filterBooksBySearch(query)
search(query) ==
    /\ searched' = [query |-> query,
                    result |-> filterBooksBySearch(books, query)]
    /\ UNCHANGED <<users, books, messages, currentUser, pending, clock,
                   toasts, selectedConversation, localStorage>>

---------------------------------------------------------------------------
(* Conversations: sendMessage, markMessageAsRead, acceptBookRequest and    *)
(* the readers getMessagesForUser, getUnreadMessagesCount                  *)

\* newMessage of sendMessage
NewMessage(cu, receiverId, book, content, isRequest, now) ==
    [id |-> now, senderId |-> cu.id, senderName |-> cu.name,
     receiverId |-> receiverId, bookId |-> book.id, bookTitle |-> book.title,
     content |-> content, isRequest |-> isRequest, isRead |-> FALSE,
     createdAt |-> now]

sendMessage(receiverId, bookId, content, isRequest) ==
    IF currentUser = Null
    THEN /\ toasts' = << "Unauthenticated" >>
         /\ UNCHANGED <<users, books, messages, currentUser, pending, clock,
                        page, localStorage>>
    ELSE IF FindBook(books, bookId) = 0
    THEN /\ toasts' = << "BookNotFound" >>
         /\ UNCHANGED <<users, books, messages, currentUser, pending, clock,
                        page, localStorage>>
    ELSE /\ Len(messages) < MaxMessages /\ HasRoom
         /\ messages' = Append(messages,
                NewMessage(currentUser, receiverId,
                           books[FindBook(books, bookId)], content, isRequest,
                           clock))
         /\ toasts' = << IF isRequest THEN "BookRequestSent" ELSE "MessageSent" >>
         /\ UNCHANGED <<users, books, currentUser, pending, clock, page>>
         /\ save

\* Array.prototype.sort with (a, b) => b.createdAt - a.createdAt: newest
\* first, messages of one instant in the order they had (the sort is stable)
RECURSIVE SortNewestFirst(_)
SortNewestFirst(s) ==
    IF s = << >> THEN << >>
    ELSE LET rest == SortNewestFirst(Tail(s))
             newer == Cardinality({ i \in DOMAIN rest :
                                      rest[i].createdAt > Head(s).createdAt })
         IN SubSeq(rest, 1, newer) \o << Head(s) >>
               \o SubSeq(rest, newer + 1, Len(rest))

getMessagesForUser(ms, cu) ==
    IF cu = Null THEN << >>
    ELSE SortNewestFirst(FilterIn(ms, { m \in Range(ms) :
                            m.senderId = cu.id \/ m.receiverId = cu.id }))

\* Mutant of getUnreadMessagesCount: the messages the user sent count too
getUnreadMessagesCountSent(ms, cu) ==
    IF cu = Null THEN 0
    ELSE Len(FilterIn(ms, { m \in Range(ms) :
                (m.senderId = cu.id \/ m.receiverId = cu.id) /\ ~m.isRead }))

getUnreadMessagesCount(ms, cu) ==
    IF cu = Null THEN 0
    ELSE Len(FilterIn(ms, { m \in Range(ms) :
                              m.receiverId = cu.id /\ ~m.isRead }))

\* Mutant of MarkTargets: the receiver is not checked
MarkTargetsAnyReceiver(ms, messageId, cu) ==
    { i \in DOMAIN ms : ms[i].id = messageId }

\* message.id === messageId && message.receiverId === currentUser.id
MarkTargets(ms, messageId, cu) ==
    { i \in DOMAIN ms : ms[i].id = messageId /\ ms[i].receiverId = cu.id }

\* Mutant of MarkRead: isRead is flipped, not set
MarkReadFlip(ms, messageId, cu) ==
    [ i \in DOMAIN ms |->
        IF i \in MarkTargets(ms, messageId, cu)
        THEN [ms[i] EXCEPT !.isRead = ~ms[i].isRead]
        ELSE ms[i] ]

\* prevMessages.map(message => ... ? { ...message, isRead: true } : message)
MarkRead(ms, messageId, cu) ==
    [ i \in DOMAIN ms |->
        IF i \in MarkTargets(ms, messageId, cu)
        THEN [ms[i] EXCEPT !.isRead = TRUE]
        ELSE ms[i] ]

markMessageAsRead(messageId) ==
    IF currentUser = Null
    THEN /\ toasts' = << >>
         /\ UNCHANGED <<users, books, messages, currentUser, pending, clock,
                        page, localStorage>>
    ELSE /\ messages' = MarkRead(messages, messageId, currentUser)
         /\ toasts' = << >>
         /\ UNCHANGED <<users, books, currentUser, pending, clock, page>>
         /\ save

\* `Your request for "${bookTitle}" has been accepted! ...`
AcceptanceContent(bookTitle) ==
    "Your request for \"" \o bookTitle \o "\" has been accepted!"

\* Mutant of FindRequest: a request the session has answered before is not
\* found again
FindRequestUnanswered(ms, messageId, cu) ==
    FirstIn(ms, { m \in Range(ms) :
                    /\ m.id = messageId /\ m.isRequest /\ m.receiverId = cu.id
                    /\ ~\E a \in Range(ms) :
                          /\ ~a.isRequest /\ a.senderId = cu.id
                          /\ a.receiverId = m.senderId /\ a.bookId = m.bookId
                          /\ a.content = AcceptanceContent(m.bookTitle) })

\* Mutant of FindRequest: the receiver is not checked
FindRequestAnyReceiver(ms, messageId, cu) ==
    FirstIn(ms, { m \in Range(ms) : m.id = messageId /\ m.isRequest })

\* messages.find(m => m.id === messageId && m.isRequest &&
\*                    m.receiverId === currentUser.id)
FindRequest(ms, messageId, cu) ==
    FirstIn(ms, { m \in Range(ms) :
                    m.id = messageId /\ m.isRequest /\ m.receiverId = cu.id })

\* Mutant of AcceptBooks: the listing is handed over to the requester
AcceptBooksReassign(bs, requestMessage) ==
    [ i \in DOMAIN bs |->
        IF bs[i].id = requestMessage.bookId
        THEN [bs[i] EXCEPT !.available = FALSE,
                           !.ownerId = requestMessage.senderId,
                           !.ownerName = requestMessage.senderName]
        ELSE bs[i] ]

\* prevBooks.map(book => book.id === requestMessage.bookId
\*                        ? { ...book, available: false } : book)
AcceptBooks(bs, requestMessage) ==
    [ i \in DOMAIN bs |->
        IF bs[i].id = requestMessage.bookId
        THEN [bs[i] EXCEPT !.available = FALSE]
        ELSE bs[i] ]

acceptanceMessage(cu, requestMessage, now) ==
    [id |-> now, senderId |-> cu.id, senderName |-> cu.name,
     receiverId |-> requestMessage.senderId, bookId |-> requestMessage.bookId,
     bookTitle |-> requestMessage.bookTitle,
     content |-> AcceptanceContent(requestMessage.bookTitle),
     isRequest |-> FALSE, isRead |-> FALSE, createdAt |-> now]

\* acceptBookRequest, explored while the store holds fewer than limit messages
acceptBookRequestUpTo(messageId, limit) ==
    IF currentUser = Null
    THEN /\ toasts' = << "Unauthenticated" >>
         /\ UNCHANGED <<users, books, messages, currentUser, pending, clock,
                        page, localStorage>>
    ELSE IF FindRequest(messages, messageId, currentUser) = 0
    THEN /\ toasts' = << "RequestNotFound" >>
         /\ UNCHANGED <<users, books, messages, currentUser, pending, clock,
                        page, localStorage>>
    ELSE /\ Len(messages) < limit
         /\ LET requestMessage ==
                    messages[FindRequest(messages, messageId, currentUser)] IN
            /\ books' = AcceptBooks(books, requestMessage)
            /\ messages' = Append(messages,
                              acceptanceMessage(currentUser, requestMessage, clock))
         /\ toasts' = << "RequestAccepted" >>
         /\ UNCHANGED <<users, currentUser, pending, clock, page>>
         /\ save

acceptBookRequest(messageId) == acceptBookRequestUpTo(messageId, MaxMessages)

---------------------------------------------------------------------------
(* The Messages page: conversationPartners, conversationMessages, the      *)
(* mark-as-read effect, setSelectedConversation and handleSendReply.       *)
(* selectedConversation is Null or [partnerId |-> the partner clicked].    *)

\* The partner of the session in a message, as conversationPartners takes it
PartnerOf(msg, cu) ==
    IF msg.receiverId = cu.id THEN msg.senderId ELSE msg.receiverId

\* partnersMap after allMessages.forEach has visited the first n messages,
\* its values in the order the keys were first set
RECURSIVE PartnersMap(_, _, _)
PartnersMap(allMessages, cu, n) ==
    IF n = 0 THEN << >>
    ELSE LET prev == PartnersMap(allMessages, cu, n - 1)
             msg == allMessages[n]
             isIncoming == msg.receiverId = cu.id
             partnerId == PartnerOf(msg, cu)
             at == FirstIn(prev, { e \in Range(prev) : e.partnerId = partnerId })
         IN IF at = 0
            THEN Append(prev,
                   [partnerId |-> partnerId,
                    partnerName |-> IF isIncoming THEN msg.senderName
                                                  ELSE "Unknown",
                    bookId |-> msg.bookId,
                    bookTitle |-> msg.bookTitle,
                    lastMessage |-> msg.content,
                    lastMessageDate |-> msg.createdAt,
                    unreadCount |-> IF isIncoming /\ ~msg.isRead THEN 1 ELSE 0,
                    isRequest |-> msg.isRequest])
            ELSE LET existing == prev[at]
                     newer == msg.createdAt > existing.lastMessageDate
                 IN [prev EXCEPT ![at] =
                       [existing EXCEPT
                          !.lastMessage = IF newer THEN msg.content ELSE @,
                          !.lastMessageDate = IF newer THEN msg.createdAt ELSE @,
                          !.unreadCount = IF isIncoming /\ ~msg.isRead
                                          THEN @ + 1 ELSE @]]

\* .sort((a, b) => b.lastMessageDate - a.lastMessageDate), stable
RECURSIVE SortLatestFirst(_)
SortLatestFirst(s) ==
    IF s = << >> THEN << >>
    ELSE LET rest == SortLatestFirst(Tail(s))
             later == Cardinality({ i \in DOMAIN rest :
                         rest[i].lastMessageDate > Head(s).lastMessageDate })
         IN SubSeq(rest, 1, later) \o << Head(s) >>
               \o SubSeq(rest, later + 1, Len(rest))

conversationPartners(ms, cu) ==
    IF cu = Null THEN << >>
    ELSE LET allMessages == getMessagesForUser(ms, cu)
         IN SortLatestFirst(PartnersMap(allMessages, cu, Len(allMessages)))

\* .sort((a, b) => a.createdAt - b.createdAt), stable
RECURSIVE SortOldestFirst(_)
SortOldestFirst(s) ==
    IF s = << >> THEN << >>
    ELSE LET rest == SortOldestFirst(Tail(s))
             older == Cardinality({ i \in DOMAIN rest :
                                      rest[i].createdAt < Head(s).createdAt })
         IN SubSeq(rest, 1, older) \o << Head(s) >>
               \o SubSeq(rest, older + 1, Len(rest))

\* Mutant of conversationMessages: the final sort is missing
conversationMessagesUnsorted(ms, cu, selected) ==
    IF selected = Null \/ cu = Null THEN << >>
    ELSE LET allMessages == getMessagesForUser(ms, cu)
         IN FilterIn(allMessages,
               { m \in Range(allMessages) :
                    \/ m.senderId = selected.partnerId
                    \/ m.receiverId = selected.partnerId })

conversationMessages(ms, cu, selected) ==
    IF selected = Null \/ cu = Null THEN << >>
    ELSE LET allMessages == getMessagesForUser(ms, cu)
         IN SortOldestFirst(FilterIn(allMessages,
               { m \in Range(allMessages) :
                    \/ m.senderId = selected.partnerId
                    \/ m.receiverId = selected.partnerId }))

\* The messages the effect marks: the unread ones the session received in
\* the selected conversation
UnreadInSelected(ms, cu, selected) ==
    LET allMessages == getMessagesForUser(ms, cu)
    IN FilterIn(allMessages,
          { m \in Range(allMessages) :
               /\ \/ m.senderId = selected.partnerId
                  \/ m.receiverId = selected.partnerId
               /\ m.receiverId = cu.id
               /\ ~m.isRead })

\* .forEach(msg => markMessageAsRead(msg.id)) over the first n of them
RECURSIVE MarkEach(_, _, _, _)
MarkEach(ms, unread, cu, n) ==
    IF n = 0 THEN ms
    ELSE MarkRead(MarkEach(ms, unread, cu, n - 1), unread[n].id, cu)

\* The effect of the Messages page, run after a render
markAsReadEffect(ms, cu, selected) ==
    IF selected = Null \/ cu = Null THEN ms
    ELSE LET unread == UnreadInSelected(ms, cu, selected)
         IN MarkEach(ms, unread, cu, Len(unread))

\* A click on a conversation of the list, and the effect that follows
setSelectedConversation(partnerId) ==
    /\ currentUser # Null
    /\ \E e \in Range(conversationPartners(messages, currentUser)) :
          e.partnerId = partnerId
    /\ selectedConversation' = [partnerId |-> partnerId]
    /\ messages' = markAsReadEffect(messages, currentUser,
                                    [partnerId |-> partnerId])
    /\ toasts' = << >>
    /\ UNCHANGED <<users, books, currentUser, pending, clock, searched>>
    /\ save

\* The back button: setSelectedConversation(null)
closeConversation ==
    /\ currentUser # Null
    /\ selectedConversation # Null
    /\ selectedConversation' = Null
    /\ toasts' = << >>
    /\ UNCHANGED <<users, books, messages, currentUser, pending, clock,
                   searched, localStorage>>

\* handleSendReply: sendMessage about the book of the oldest message of the
\* conversation, and the effect that follows the render
handleSendReply(replyText) ==
    /\ currentUser # Null
    /\ selectedConversation # Null
    /\ UNCHANGED <<users, books, currentUser, pending, clock, page>>
    /\ LET shown == conversationMessages(messages, currentUser,
                                         selectedConversation)
       IN /\ shown # << >>
          /\ IF FindBook(books, shown[1].bookId) = 0
             THEN /\ toasts' = << "BookNotFound" >>
                  /\ UNCHANGED <<messages, localStorage>>
             ELSE /\ Len(messages) < MaxMessages
                  /\ messages' =
                        markAsReadEffect(
                           Append(messages,
                              NewMessage(currentUser,
                                         selectedConversation.partnerId,
                                         books[FindBook(books, shown[1].bookId)],
                                         replyText, FALSE, clock)),
                           currentUser, selectedConversation)
                  /\ toasts' = << "MessageSent" >>
                  /\ save

---------------------------------------------------------------------------
(* The specification *)

Next ==
    \/ Tick
    \/ mount
    \/ \E userData \in UserInputs : registerUser(userData)
    \/ \E email \in Emails, password \in Passwords : loginUser(email, password)
    \/ logoutUser
    \/ \E bookData \in BookInputs, coverFile \in CoverFiles :
          addBook(bookData, coverFile)
    \/ \E i \in 1 .. MaxPending : uploadResolved(i)
    \/ \E i \in 1 .. MaxPending : uploadRejected(i)
    \/ \E bookId \in Ids : toggleBookAvailability(bookId)
    \/ \E bookId \in Ids : deleteBook(bookId)
    \/ \E receiverId \in ReceiverIds, bookId \in Ids, content \in Contents,
          isRequest \in BOOLEAN :
          sendMessage(receiverId, bookId, content, isRequest)
    \/ \E messageId \in Ids : markMessageAsRead(messageId)
    \/ \E messageId \in Ids : acceptBookRequest(messageId)

Spec == Init /\ [][Next]_vars

\* The browser's site data is cleared under the running page: the four
\* items are gone, the state in memory stays until it is set again.
clearStorage ==
    /\ localStorage # EmptyStorage
    /\ localStorage' = EmptyStorage
    /\ UNCHANGED <<users, books, messages, currentUser, pending, clock,
                   toasts, page>>

NextStorage == Next \/ clearStorage

SpecStorage == Init /\ [][NextStorage]_vars

\* The search alone: the provider holds any shelf of listings John has
\* added, one a millisecond, under any session, and callers search it.
SearchInputs ==
    BookInputs \cup
    { [title |-> "Emma", author |-> "Jane Austen", genre |-> "Classic",
       location |-> "DUNEDIN", contact |-> "john@example.com",
       coverUrl |-> Undefined] }

Queries == {"dune", "DUNE", "du", "", "SCI-fi", "Orwell", "york", "undefined"}

Shelves == UNION { [1 .. n -> SearchInputs] : n \in 0 .. MaxBooks }

ListingsOf(shelf) ==
    [ i \in DOMAIN shelf |->
        NewBook(shelf[i], shelf[i].coverUrl, initialUsers[1], ClockStart + i - 1) ]

InitSearch ==
    /\ users = initialUsers
    /\ \E shelf \in Shelves :
          /\ books = ListingsOf(shelf)
          /\ clock = ClockStart + Len(shelf)
    /\ messages = initialMessages
    /\ currentUser \in {Null} \cup Range(initialUsers)
    /\ pending = << >>
    /\ toasts = << >>
    /\ searched = Null
    /\ selectedConversation = Null
    /\ localStorage = Snapshot(users, books, messages, currentUser)

NextSearch == \E query \in Queries : search(query)

SpecSearch == InitSearch /\ [][NextSearch]_vars

\* The Messages page alone: the provider holds any thread of messages the
\* seed users have sent about two listings of John, the second of which he
\* has deleted since, under any session; nothing is selected yet.
ThreadBooks ==
    ListingsOf(<< CHOOSE b \in BookInputs : b.title = "1984",
                  CHOOSE b \in BookInputs : b.title = "Dune" >>)

ThreadTimes == (ClockStart + 2) .. (ClockStart + 2 + MaxTicks)

ThreadReceivers == {1, 2, ClockStart}

ThreadMessages ==
    { [NewMessage(u, r, b, c, FALSE, now) EXCEPT !.isRead = read] :
         <<u, r, b, c, now, read>> \in
            { x \in Range(initialUsers) \X ThreadReceivers \X Range(ThreadBooks)
                       \X Contents \X ThreadTimes \X BOOLEAN :
                 x[6] => x[2] \in IdsOf(initialUsers) } }

Threads ==
    { t \in UNION { [1 .. n -> ThreadMessages] : n \in 0 .. MaxMessages } :
         \A i, j \in DOMAIN t : i < j => t[i].createdAt <= t[j].createdAt }

InitMessages ==
    /\ users = initialUsers
    /\ books = << ThreadBooks[1] >>
    /\ messages \in Threads
    /\ currentUser \in {Null} \cup Range(initialUsers)
    /\ pending = << >>
    /\ clock = ClockStart + 2 + MaxTicks
    /\ toasts = << >>
    /\ searched = Null
    /\ selectedConversation = Null
    /\ localStorage = Snapshot(users, books, messages, currentUser)

NextMessages ==
    \/ \E partnerId \in ThreadReceivers : setSelectedConversation(partnerId)
    \/ closeConversation
    \/ \E replyText \in Contents : handleSendReply(replyText)

SpecMessages == InitMessages /\ [][NextMessages]_vars

\* Accepting alone: the provider holds John's two listings, one of them
\* possibly given away already, and up to MaxMessages requests about them
\* that Jane or John sent to John or Jane; the session accepts requests.
RequestMessages ==
    { NewMessage(u, r, b, c, TRUE, now) :
         <<u, r, b, c, now>> \in
            Range(initialUsers) \X IdsOf(initialUsers) \X Range(ThreadBooks)
               \X Contents \X ThreadTimes }

Inboxes ==
    { t \in UNION { [1 .. n -> RequestMessages] : n \in 1 .. MaxMessages } :
         \A i, j \in DOMAIN t : i < j => t[i].createdAt <= t[j].createdAt }

InitAccept ==
    /\ users = initialUsers
    /\ \E given \in BOOLEAN :
          books = [ThreadBooks EXCEPT ![1].available = ~given]
    /\ messages \in Inboxes
    /\ currentUser \in {Null} \cup Range(initialUsers)
    /\ pending = << >>
    /\ clock = ClockStart + 2 + MaxTicks
    /\ toasts = << >>
    /\ searched = Null
    /\ selectedConversation = Null
    /\ localStorage = Snapshot(users, books, messages, currentUser)

NextAccept ==
    \E messageId \in ThreadTimes :
       acceptBookRequestUpTo(messageId, MaxMessages + MaxAccepts)

SpecAccept == InitAccept /\ [][NextAccept]_vars

---------------------------------------------------------------------------
(* Claims *)

\* C1: acceptRequest on a request message M received by the session always
\* leaves the book M.bookId refers to with available = false and appends
\* exactly one message, addressed to M.senderId with isRequest = false;
\* never only one of the two, whatever happened before (deleteListing of
\* that book included).
C1_AcceptBothEffects ==
    [][ \A messageId \in Ids :
          ( /\ acceptBookRequest(messageId)
            /\ currentUser # Null
            /\ \E m \in Range(messages) :
                  m.id = messageId /\ m.isRequest /\ m.receiverId = currentUser.id )
          => \E m \in Range(messages) :
                /\ m.id = messageId /\ m.isRequest /\ m.receiverId = currentUser.id
                /\ \E b \in Range(books') : b.id = m.bookId
                /\ \A b \in Range(books') : b.id = m.bookId => ~b.available
                /\ Len(messages') = Len(messages) + 1
                /\ SubSeq(messages', 1, Len(messages)) = messages
                /\ messages'[Len(messages')].receiverId = m.senderId
                /\ ~messages'[Len(messages')].isRequest
      ]_vars

\* C2: a listing's available flag changes only in a step taken while the
\* session is that listing's owner, whatever the operation.
C2_AvailableOnlyByOwner ==
    [][ /\ Len(books') = Len(books) =>
              \A i \in DOMAIN books :
                 books'[i].available # books[i].available
                 => currentUser # Null /\ currentUser.id = books[i].ownerId
        /\ Len(books') < Len(books) => Range(books') \subseteq Range(books)
        /\ Len(books') > Len(books) => SubSeq(books', 1, Len(books)) = books
      ]_vars

\* C3: no two users ever share an email, and a register call whose email
\* an existing user already has fails with DuplicateEmail and leaves the
\* user set unchanged.
C3_UniqueEmails ==
    [][ /\ \A i, j \in DOMAIN users : users[i].email = users[j].email => i = j
        /\ \A i, j \in DOMAIN users' :
              users'[i].email = users'[j].email => i = j
        /\ \A userData \in UserInputs :
              ( /\ registerUser(userData)
                /\ \E u \in Range(users) : u.email = userData.email )
              => toasts' = << "DuplicateEmail" >> /\ users' = users
      ]_vars

\* C3 witness: a registration was refused after another one had succeeded.
C3_Witness ==
    /\ toasts = << "DuplicateEmail" >>
    /\ Len(users) = Len(initialUsers) + 1

\* C4: login succeeds exactly when some user has that email and that
\* secret; then the session becomes that user; otherwise the session and
\* all collections stay as they were.
C4_LoginIffMatch ==
    [][ \A email \in Emails, password \in Passwords :
          loginUser(email, password) =>
             IF \E u \in Range(users) : u.email = email /\ u.password = password
             THEN /\ toasts' = << "LoginSuccessful" >>
                  /\ currentUser' \in Range(users)
                  /\ currentUser'.email = email
                  /\ currentUser'.password = password
                  /\ UNCHANGED <<users, books, messages>>
             ELSE /\ toasts' = << "InvalidCredentials" >>
                  /\ UNCHANGED <<users, books, messages, currentUser>>
      ]_vars

\* C4 witness: a login failed while another user was the session.
C4_Witness ==
    /\ toasts = << "InvalidCredentials" >>
    /\ currentUser # Null

\* The last operation failed: its last toast signals a failure kind.
Failed(ts) == ts # << >> /\ ts[Len(ts)] \in Failures

\* C5: a failing operation leaves users, books, messages and the session
\* as they were; addListing, toggleAvailability, deleteListing, sendMessage
\* and acceptRequest without a session fail with Unauthenticated and change
\* nothing; and after a failure a valid operation (a login with matching
\* credentials, a registration with a new email) still succeeds.
C5_FailureChangesNothing ==
    [][ /\ Failed(toasts') => UNCHANGED <<users, books, messages, currentUser>>
        /\ currentUser = Null =>
              /\ \A bookData \in BookInputs, coverFile \in CoverFiles :
                    addBook(bookData, coverFile) =>
                       toasts' = << "Unauthenticated" >> /\ UNCHANGED <<store, pending>>
              /\ \A bookId \in Ids :
                    toggleBookAvailability(bookId) \/ deleteBook(bookId) =>
                       toasts' = << "Unauthenticated" >> /\ UNCHANGED <<store, pending>>
              /\ \A receiverId \in ReceiverIds, bookId \in Ids,
                    content \in Contents, isRequest \in BOOLEAN :
                    sendMessage(receiverId, bookId, content, isRequest) =>
                       toasts' = << "Unauthenticated" >> /\ UNCHANGED <<store, pending>>
              /\ \A messageId \in Ids :
                    acceptBookRequest(messageId) =>
                       toasts' = << "Unauthenticated" >> /\ UNCHANGED <<store, pending>>
        /\ Failed(toasts) =>
              /\ \A email \in Emails, password \in Passwords :
                    ( /\ loginUser(email, password)
                      /\ \E u \in Range(users) :
                            u.email = email /\ u.password = password )
                    => ~Failed(toasts') /\ currentUser' # Null
              /\ \A userData \in UserInputs :
                    ( /\ registerUser(userData)
                      /\ \A u \in Range(users) : u.email # userData.email )
                    => ~Failed(toasts') /\ Len(users') = Len(users) + 1
      ]_vars

\* C5 witness: an operation failed for want of a session while the store
\* held a listing and a message.
C5_Witness ==
    /\ toasts = << "Unauthenticated" >>
    /\ currentUser = Null
    /\ books # << >>
    /\ messages # << >>

\* C6: addListing under a seeker session fails with Forbidden and leaves
\* every listing as it was, with or without a cover file.
C6_SeekerCannotAdd ==
    [][ \A bookData \in BookInputs, coverFile \in CoverFiles :
          ( /\ addBook(bookData, coverFile)
            /\ currentUser # Null
            /\ currentUser.role = "seeker" )
          => /\ toasts' = << "Forbidden" >>
             /\ books' = books
             /\ pending' = pending
      ]_vars

\* C6 witness: a seeker was refused while listings existed.
C6_Witness ==
    /\ toasts = << "Forbidden" >>
    /\ currentUser # Null
    /\ currentUser.role = "seeker"
    /\ books # << >>

\* C7: toggleAvailability(id) under a session that owns no listing id (or
\* with an id no listing has) changes nothing and signals nothing; called
\* by the owner it flips the available flag of exactly that listing and
\* changes nothing else.
C7_ToggleExactlyOne ==
    [][ \A bookId \in Ids :
          (toggleBookAvailability(bookId) /\ currentUser # Null) =>
             /\ toasts' = << >>
             /\ UNCHANGED <<users, messages, currentUser>>
             /\ IF \E b \in Range(books) :
                      b.id = bookId /\ b.ownerId = currentUser.id
                THEN \E i \in DOMAIN books :
                        /\ books[i].id = bookId
                        /\ books[i].ownerId = currentUser.id
                        /\ books' = [books EXCEPT
                                       ![i].available = ~books[i].available]
                ELSE books' = books
      ]_vars

\* C8: deleteListing(id) under a session that owns no listing id, or with
\* an id no listing has, fails with NotFoundOrForbidden in both cases and
\* leaves every listing in place and unchanged.
C8_DeleteByNonOwnerRefused ==
    [][ \A bookId \in Ids :
          ( /\ deleteBook(bookId)
            /\ currentUser # Null
            /\ \A b \in Range(books) : b.id = bookId => b.ownerId # currentUser.id )
          => toasts' = << "NotFoundOrForbidden" >> /\ books' = books
      ]_vars

\* C8 witness: a deletion was refused while every listing belonged to
\* someone other than the session.
C8_Witness ==
    /\ toasts = << "NotFoundOrForbidden" >>
    /\ currentUser # Null
    /\ books # << >>
    /\ \A b \in Range(books) : b.ownerId # currentUser.id

\* C9: every message's senderId and receiverId are ids of users of the user
\* set, and the bookId of a message was the id of a listing when the
\* message was created, whatever receiverId the callers pass.
C9_MessageReferences ==
    [][ /\ \A m \in Range(messages') :
              m.senderId \in IdsOf(users') /\ m.receiverId \in IdsOf(users')
        /\ Len(messages') > Len(messages) =>
              messages'[Len(messages')].bookId \in IdsOf(books)
      ]_vars

\* C10: isRead becomes true only in a markAsRead step taken while the
\* session's id is the message's receiverId (a message is created unread);
\* markAsRead under a session that is not the receiver of the message, or
\* under no session, changes no message.
C10_ReadOnlyByReceiver ==
    [][ /\ \A i \in DOMAIN messages' :
              (messages'[i].isRead /\ ~(i \in DOMAIN messages /\ messages[i].isRead))
              => /\ i \in DOMAIN messages
                 /\ currentUser # Null
                 /\ currentUser.id = messages[i].receiverId
                 /\ \E messageId \in Ids : markMessageAsRead(messageId)
        /\ \A messageId \in Ids :
              ( /\ markMessageAsRead(messageId)
                /\ \/ currentUser = Null
                   \/ \A m \in Range(messages) :
                         m.id = messageId => m.receiverId # currentUser.id )
              => messages' = messages
      ]_vars

\* C10 witness: a message has been read, and its sender is not its receiver.
C10_Witness ==
    \E m \in Range(messages) : m.isRead /\ m.senderId # m.receiverId


\* C11: markAsRead called twice in a row on the same message id under the
\* same session gives the state one call gives: a markAsRead step leaves
\* users, listings and the session as they were, and marking the messages
\* it produced once more gives the same messages.
C11_MarkAsReadIdempotent ==
    [][ \A messageId \in Ids :
          markMessageAsRead(messageId) =>
             /\ UNCHANGED <<users, books, currentUser>>
             /\ IF currentUser = Null
                THEN messages' = messages
                ELSE MarkRead(messages', messageId, currentUser') = messages'
      ]_vars

\* C11 witness: the session has read a message it received, so a second
\* markAsRead on it finds it read.
C11_Witness ==
    /\ currentUser # Null
    /\ toasts = << >>
    /\ \E m \in Range(messages) : m.isRead /\ m.receiverId = currentUser.id


\* A message but for its isRead flag
Unflagged(m) == [m EXCEPT !.isRead = FALSE]

\* C12: the message store is append-only: no step of any operation removes
\* a message or changes a field of an existing message other than isRead,
\* and isRead never goes from true back to false.
C12_MessagesAppendOnly ==
    [][ /\ Len(messages') >= Len(messages)
        /\ \A i \in DOMAIN messages :
              /\ Unflagged(messages'[i]) = Unflagged(messages[i])
              /\ messages[i].isRead => messages'[i].isRead
      ]_vars

\* C12 witness: a listing was deleted while the store held a read message
\* about it.
C12_Witness ==
    /\ toasts = << "BookDeleted" >>
    /\ \E m \in Range(messages) : m.isRead /\ m.bookId \notin IdsOf(books)


\* C13: owner A has added a listing, seeker B has sent A a request about
\* it, and A accepts the request: afterwards the listing is not available,
\* exactly two messages about it involve B (the request B sent and the
\* acceptance B received), and the unread count of B is 1.
C13_RequestAcceptScenario ==
    [][ \A messageId \in Ids, A, B \in Range(users) :
          ( /\ acceptBookRequest(messageId)
            /\ currentUser = A /\ A.role = "owner"
            /\ B.role = "seeker" /\ B.id # A.id
            /\ Len(books) = 1
            /\ books[1].ownerId = A.id /\ books[1].available
            /\ Len(messages) = 1
            /\ messages[1].id = messageId /\ messages[1].isRequest
            /\ messages[1].senderId = B.id /\ messages[1].receiverId = A.id
            /\ messages[1].bookId = books[1].id )
          => LET about == FilterIn(getMessagesForUser(messages', B),
                             { m \in Range(messages') : m.bookId = books[1].id })
             IN /\ Len(books') = 1
                /\ ~books'[1].available
                /\ Len(about) = 2
                /\ \E i, j \in DOMAIN about :
                      /\ about[i].senderId = B.id /\ about[i].isRequest
                      /\ about[j].receiverId = B.id /\ ~about[j].isRequest
                /\ getUnreadMessagesCount(messages', B) = 1
      ]_vars

\* C13 witness: John has accepted the request Jane sent about his listing.
C13_Witness ==
    /\ toasts = << "RequestAccepted" >>
    /\ Len(books) = 1 /\ books[1].ownerId = 1 /\ ~books[1].available
    /\ Len(messages) = 2
    /\ messages[1].senderId = 2 /\ messages[1].receiverId = 1
    /\ messages[1].isRequest /\ messages[1].bookId = books[1].id
    /\ messages[2].senderId = 1 /\ messages[2].receiverId = 2


\* C14: acceptRequest(messageId) under a session fails with RequestNotFound,
\* changes no listing and appends no message, unless some message has that
\* id, is a request and has the session as its receiver; so the sender of a
\* request, a third user, and the id of a message that is no request are
\* all refused.
C14_AcceptOnlyReceivedRequest ==
    [][ \A messageId \in Ids :
          ( /\ acceptBookRequest(messageId)
            /\ currentUser # Null
            /\ \A m \in Range(messages) :
                  m.id = messageId =>
                     ~m.isRequest \/ m.receiverId # currentUser.id )
          => /\ toasts' = << "RequestNotFound" >>
             /\ books' = books
             /\ messages' = messages
      ]_vars

\* C14 witness: the session was refused while every message of the store
\* was a request it had sent to someone else about an available listing.
C14_Witness ==
    /\ toasts = << "RequestNotFound" >>
    /\ currentUser # Null
    /\ messages # << >>
    /\ \A m \in Range(messages) :
          /\ m.isRequest
          /\ m.senderId = currentUser.id
          /\ m.receiverId # currentUser.id
          /\ \E b \in Range(books) : b.id = m.bookId /\ b.available


\* C15: every operation runs to completion before control returns to its
\* caller: between the start of an addListing with a cover file and the
\* application of its state change no other operation is executed, so
\* while a call is suspended the only steps are the passing of time and
\* the end of the cover read.
C15_RunToCompletion ==
    [][ pending # << >> =>
           \/ Tick
           \/ \E i \in DOMAIN pending : uploadResolved(i) \/ uploadRejected(i)
      ]_vars


\* C16 as claimed: when the cover file of an addListing cannot be read,
\* CoverUploadFailed is signalled, the listing is still created, and the
\* created listing has no cover, whatever cover URL the listing data held.
C16_FailedUploadNoCover ==
    [][ \A i \in DOMAIN pending :
          uploadRejected(i) =>
             /\ \E k \in DOMAIN toasts' : toasts'[k] = "CoverUploadFailed"
             /\ Len(books') = Len(books) + 1
             /\ SubSeq(books', 1, Len(books)) = books
             /\ books'[Len(books')].title = pending[i].bookData.title
             /\ books'[Len(books')].coverUrl = Undefined
      ]_vars

\* C16 as amended: when the cover file of an addListing cannot be read,
\* CoverUploadFailed is signalled, the listing is still created, and the
\* created listing has the cover URL of the listing data: no cover when
\* the listing data held none.
C16_FailedUploadKeepsUrl ==
    [][ \A i \in DOMAIN pending :
          uploadRejected(i) =>
             /\ \E k \in DOMAIN toasts' : toasts'[k] = "CoverUploadFailed"
             /\ Len(books') = Len(books) + 1
             /\ SubSeq(books', 1, Len(books)) = books
             /\ books'[Len(books')].title = pending[i].bookData.title
             /\ books'[Len(books')].coverUrl = pending[i].bookData.coverUrl
      ]_vars

\* C16 witness: a cover file could not be read and the listing created
\* carries the cover URL of its listing data.
C16_Witness ==
    /\ toasts = << "CoverUploadFailed", "BookAdded" >>
    /\ books # << >>
    /\ books[Len(books)].coverUrl = "http://covers/1984.jpg"


\* The step appends one listing made from bookData for user and changes
\* nothing else.
AppendsListing(user, bookData) ==
    /\ Len(books') = Len(books) + 1
    /\ SubSeq(books', 1, Len(books)) = books
    /\ books'[Len(books')].available
    /\ books'[Len(books')].ownerId = user.id
    /\ books'[Len(books')].ownerName = user.name
    /\ books'[Len(books')].title = bookData.title
    /\ books'[Len(books')].author = bookData.author
    /\ UNCHANGED <<users, messages, currentUser>>

\* C17: a successful addListing appends exactly one listing at the end of
\* the listings, with available = true and the id and name of the session
\* that called it as ownerId and ownerName, and changes no other listing,
\* no user and no message; with a cover file this happens when the read of
\* the file ends.
C17_AddAppendsOne ==
    [][ /\ \A bookData \in BookInputs :
              ( /\ addBook(bookData, Undefined)
                /\ currentUser # Null
                /\ currentUser.role = "owner" )
              => toasts' = << "BookAdded" >> /\ AppendsListing(currentUser, bookData)
        /\ \A i \in DOMAIN pending :
              uploadResolved(i) \/ uploadRejected(i) =>
                 /\ toasts'[Len(toasts')] = "BookAdded"
                 /\ AppendsListing(pending[i].currentUser, pending[i].bookData)
      ]_vars

\* C17 witness: a second listing was added after the first one had been
\* made unavailable.
C17_Witness ==
    /\ toasts = << "BookAdded" >>
    /\ Len(books) = 2
    /\ ~books[1].available
    /\ books[2].available


\* Every listing of bs is owned by a user of us whose role is owner.
OwnersExist(bs, us) ==
    \A b \in Range(bs) :
       \E u \in Range(us) : u.id = b.ownerId /\ u.role = "owner"

\* C18: in every reachable state the ownerId of each listing is the id of a
\* user of the user set whose role is owner, and no step changes the
\* ownerId or the ownerName of a listing that stays in the store.
C18_OwnerFixed ==
    [][ /\ OwnersExist(books, users)
        /\ OwnersExist(books', users')
        /\ Len(books') >= Len(books) =>
              \A i \in DOMAIN books :
                 /\ books'[i].id = books[i].id
                 /\ books'[i].ownerId = books[i].ownerId
                 /\ books'[i].ownerName = books[i].ownerName
        /\ Len(books') < Len(books) => Range(books') \subseteq Range(books)
      ]_vars

\* C18 witness: a request about a listing of John was accepted, and the
\* listing is still his.
C18_Witness ==
    /\ toasts = << "RequestAccepted" >>
    /\ \E b \in Range(books), m \in Range(messages) :
          /\ m.isRequest /\ m.bookId = b.id /\ m.senderId # b.ownerId
          /\ ~b.available /\ b.ownerId = 1 /\ b.ownerName = "John Doe"


\* C19: a successful deleteListing by the owner removes exactly that
\* listing and leaves the users, the session, every other listing and
\* every message as they were; the messages about the deleted listing stay
\* in the store with their bookTitle and still appear in the message lists
\* of their sender and receiver.
C19_DeleteRemovesExactlyOne ==
    [][ \A bookId \in Ids :
          ( /\ deleteBook(bookId)
            /\ toasts' = << "BookDeleted" >> )
          => /\ \E i \in DOMAIN books :
                   /\ books[i].id = bookId
                   /\ books[i].ownerId = currentUser.id
                   /\ books' = Without(books, i)
             /\ UNCHANGED <<users, currentUser, messages>>
             /\ \A m \in Range(messages), u \in Range(users) :
                   (m.bookId = bookId /\ u.id \in {m.senderId, m.receiverId})
                   => \E k \in DOMAIN getMessagesForUser(messages', u) :
                         getMessagesForUser(messages', u)[k] = m
      ]_vars


\* Two characters that are the same letter, whatever their case
SameLetter(a, b) ==
    \/ a = b
    \/ \E i \in 1 .. Len(UpperCase) :
          {a, b} = {SubSeq(UpperCase, i, i), SubSeq(LowerCase, i, i)}

\* query occurs in field, letter for letter, whatever the case
OccursIn(query, field) ==
    \E i \in 0 .. (Len(field) - Len(query)) :
       \A k \in 1 .. Len(query) :
          SameLetter(SubSeq(field, i + k, i + k), SubSeq(query, k, k))

\* The listing matches the query in its title, author, genre or location
Matches(b, query) ==
    \/ OccursIn(query, b.title)
    \/ OccursIn(query, b.author)
    \/ b.genre # Undefined /\ OccursIn(query, b.genre)
    \/ OccursIn(query, b.location)

\* C20: search(query) returns exactly the listings whose title, author,
\* genre (when present) or location contains the query, case ignored, in
\* insertion order, under any session or none, and changes no state; with
\* the listings "Dune" and "1984" the queries "dune", "DUNE" and "du" each
\* return exactly the Dune listing.
C20_SearchMatches ==
    [][ \A query \in Queries :
          search(query) =>
             /\ searched'.query = query
             /\ searched'.result = SelectSeq(books, LAMBDA b : Matches(b, query))
             /\ UNCHANGED <<users, books, messages, currentUser>>
             /\ ( /\ Len(books) = 2
                  /\ books[1].title = "Dune" /\ books[2].title = "1984"
                  /\ query \in {"dune", "DUNE", "du"} )
                => searched'.result = << books[1] >>
      ]_vars

\* C20 witness: with no session, the search for "DUNE" among the listings
\* "Dune" and "1984" returned the Dune listing alone.
C20_Witness ==
    /\ currentUser = Null
    /\ Len(books) = 2
    /\ books[1].title = "Dune" /\ books[2].title = "1984"
    /\ searched # Null
    /\ searched.query = "DUNE"
    /\ searched.result = << books[1] >>


\* The messages the user with id me has exchanged with the partner p
Exchanged(ms, me, p) ==
    { m \in Range(ms) :
         \/ m.senderId = me /\ m.receiverId = p
         \/ m.senderId = p /\ m.receiverId = me }

\* C21: in the conversation list of the session, the bookId and bookTitle
\* of each conversation are those of the earliest message exchanged with
\* that partner, and its last-message content and timestamp are those of
\* the most recent one.
C21_ConversationBookOfEarliest ==
    currentUser # Null =>
       \A e \in Range(conversationPartners(messages, currentUser)) :
          LET ex == Exchanged(messages, currentUser.id, e.partnerId) IN
          /\ \E m \in ex :
                /\ \A o \in ex : m.createdAt <= o.createdAt
                /\ e.bookId = m.bookId
                /\ e.bookTitle = m.bookTitle
          /\ \E m \in ex :
                /\ \A o \in ex : m.createdAt >= o.createdAt
                /\ e.lastMessage = m.content
                /\ e.lastMessageDate = m.createdAt


\* The other participant of a message the user with id me sent or received
OtherOf(m, me) == IF m.senderId = me THEN m.receiverId ELSE m.senderId

\* The timestamp of the most recent message exchanged with p
LatestWith(ms, me, p) ==
    CHOOSE t \in { m.createdAt : m \in Exchanged(ms, me, p) } :
       \A m \in Exchanged(ms, me, p) : m.createdAt <= t

\* C22: the conversation list of the session has exactly one entry per
\* other participant of the messages the session sent or received, ordered
\* by descending timestamp of the most recent message, and the messages
\* shown inside a conversation are ordered oldest first.  (The views are
\* computed from the state; they set nothing.)
C22_ConversationOrder ==
    currentUser # Null =>
       LET me == currentUser.id
           list == conversationPartners(messages, currentUser)
           others == { OtherOf(m, me) :
                          m \in { m \in Range(messages) :
                                     m.senderId = me \/ m.receiverId = me } }
       IN /\ { list[i].partnerId : i \in DOMAIN list } = others
          /\ Len(list) = Cardinality(others)
          /\ \A i, j \in DOMAIN list :
                i < j => LatestWith(messages, me, list[i].partnerId)
                            >= LatestWith(messages, me, list[j].partnerId)
          /\ \A p \in others :
                LET shown == conversationMessages(messages, currentUser,
                                                  [partnerId |-> p])
                IN /\ shown # << >>
                   /\ \A i, j \in DOMAIN shown :
                         i < j => shown[i].createdAt <= shown[j].createdAt

\* C22 witness: the session has opened a conversation of two messages sent
\* at different times (the list of all messages holds the later one first).
C22_Witness ==
    /\ currentUser # Null
    /\ selectedConversation # Null
    /\ Len(conversationPartners(messages, currentUser)) = 1
    /\ Len(messages) = 2 /\ messages[1].createdAt < messages[2].createdAt
    /\ \E m, o \in Exchanged(messages, currentUser.id,
                            selectedConversation.partnerId) :
          m.createdAt < o.createdAt


\* The unread messages addressed to the user with id me, by position
UnreadFor(ms, me) ==
    { i \in DOMAIN ms : ms[i].receiverId = me /\ ~ms[i].isRead }

\* C23 (definition): unreadCount() is the number of messages whose receiver
\* is the session and whose isRead is false, and 0 without a session.
C23_CountDefinition ==
    getUnreadMessagesCount(messages, currentUser) =
       IF currentUser = Null THEN 0
       ELSE Cardinality(UnreadFor(messages, currentUser.id))

\* C23 (rise): a sendMessage or acceptRequest that appends a message raises
\* the unread count of the user it is addressed to by one.
C23_RisesByOne ==
    /\ \A receiverId \in ReceiverIds, bookId \in Ids,
          content \in Contents, isRequest \in BOOLEAN :
          ( /\ sendMessage(receiverId, bookId, content, isRequest)
            /\ Len(messages') = Len(messages) + 1 )
          => \A r \in Range(users) :
                r.id = receiverId =>
                   getUnreadMessagesCount(messages', r)
                      = getUnreadMessagesCount(messages, r) + 1
    /\ \A messageId \in Ids :
          ( /\ acceptBookRequest(messageId)
            /\ Len(messages') = Len(messages) + 1 )
          => \A r \in Range(users) :
                r.id = messages'[Len(messages')].receiverId =>
                   getUnreadMessagesCount(messages', r)
                      = getUnreadMessagesCount(messages, r) + 1

\* C23 (fall): a markAsRead that changes a message lowers the unread count
\* of the session by one.
C23_FallsByOne ==
    \A messageId \in Ids :
       (markMessageAsRead(messageId) /\ messages' # messages)
       => getUnreadMessagesCount(messages', currentUser)
             = getUnreadMessagesCount(messages, currentUser) - 1

\* C23: unreadCount() counts the unread messages addressed to the session
\* (0 without a session); it rises by one for the receiver on each
\* sendMessage or acceptRequest addressed to them, and falls by one on each
\* markAsRead that changes a message.
C23_UnreadCount ==
    [][ /\ C23_CountDefinition
        /\ C23_CountDefinition'
        /\ C23_RisesByOne
        /\ C23_FallsByOne
      ]_vars


\* C24: in every state an operation has left, the stored snapshot is the
\* one of the state in memory, and loading it gives back users, listings,
\* messages and session as they are: an absent session loads as absent,
\* saved empty listings and messages load as empty, not as the defaults.
C24_SnapshotRoundTrip ==
    /\ localStorage = Snapshot(users, books, messages, currentUser)
    /\ LoadUsers(localStorage) = users
    /\ LoadBooks(localStorage) = books
    /\ LoadMessages(localStorage) = messages
    /\ LoadCurrentUser(localStorage) = currentUser
    /\ currentUser = Null => ~Truthy(localStorage.bookExchangeCurrentUser)
    /\ books = << >> => /\ Truthy(localStorage.bookExchangeBooks)
                        /\ LoadBooks(localStorage) = << >>
    /\ messages = << >> => /\ Truthy(localStorage.bookExchangeMessages)
                           /\ LoadMessages(localStorage) = << >>

\* C24 witness: a user registered, added a listing without a cover and
\* logged out; no message was sent.
C24_Witness ==
    /\ toasts = << "LoggedOut" >>
    /\ currentUser = Null
    /\ Len(users) > Len(initialUsers)
    /\ \E b \in Range(books) : b.coverUrl = Undefined
    /\ messages = << >>


C26_ListingOfCallTimeUser ==
    [][ \A i \in 1 .. MaxPending :
          (uploadResolved(i) \/ uploadRejected(i))
          => /\ Len(books') = Len(books) + 1
             /\ SubSeq(books', 1, Len(books)) = books
             /\ books'[Len(books')].ownerId = pending[i].currentUser.id
             /\ books'[Len(books')].ownerName = pending[i].currentUser.name
             /\ books'[Len(books')].title = pending[i].bookData.title
             /\ currentUser' = currentUser
      ]_vars

\* C26 witness: a listing with the cover just read has been added for its
\* owner while another user is the session.
C26_Witness ==
    /\ toasts = << "BookAdded" >>
    /\ books # << >>
    /\ books[Len(books)].coverUrl = DataUrl("cover.png")
    /\ currentUser # Null
    /\ currentUser.id # books[Len(books)].ownerId

\* The same with no session at all
C26_WitnessLoggedOut ==
    /\ toasts = << "BookAdded" >>
    /\ books # << >>
    /\ currentUser = Null


\* No two records of s have the same id
DistinctIds(s) == \A i, j \in DOMAIN s : i # j => s[i].id # s[j].id

\* C27: in every reachable state no two users, no two listings and no two
\* messages share an id.
C27_IdsPairwiseDistinct ==
    /\ DistinctIds(users)
    /\ DistinctIds(books)
    /\ DistinctIds(messages)


\* C28: acceptRequest on a request the session received succeeds whether or
\* not the listing is available and whether or not the request, or another
\* request about the same listing, was accepted before: each call appends
\* one acceptance addressed to the requester and the listing is not
\* available afterwards.
C28_AcceptRepeats ==
    [][ \A messageId \in ThreadTimes :
          ( /\ acceptBookRequestUpTo(messageId, MaxMessages + MaxAccepts)
            /\ currentUser # Null
            /\ \E m \in Range(messages) :
                  m.id = messageId /\ m.isRequest
                     /\ m.receiverId = currentUser.id )
          => /\ toasts' = << "RequestAccepted" >>
             /\ Len(messages') = Len(messages) + 1
             /\ SubSeq(messages', 1, Len(messages)) = messages
             /\ \E m \in Range(messages) :
                   /\ m.id = messageId /\ m.isRequest
                   /\ m.receiverId = currentUser.id
                   /\ LET a == messages'[Len(messages')] IN
                      /\ ~a.isRequest /\ ~a.isRead
                      /\ a.senderId = currentUser.id
                      /\ a.receiverId = m.senderId
                      /\ a.bookId = m.bookId
                   /\ \A i \in DOMAIN books' :
                         books'[i].id = m.bookId => ~books'[i].available
      ]_vars

\* The acceptances in ms about the listing bookId, by position
AcceptancesAbout(ms, bookId) ==
    { i \in DOMAIN ms : ~ms[i].isRequest /\ ms[i].bookId = bookId }

\* C28 witness: two requests about one listing have both been accepted;
\* the listing is not available.
C28_Witness ==
    /\ toasts = << "RequestAccepted" >>
    /\ \E b \in Range(books) :
          /\ ~b.available
          /\ Cardinality(AcceptancesAbout(messages, b.id)) = 2
          /\ \E i, j \in DOMAIN messages :
                /\ i # j /\ messages[i].id # messages[j].id
                /\ messages[i].isRequest /\ messages[j].isRequest
                /\ messages[i].bookId = b.id /\ messages[j].bookId = b.id

\* The same request accepted twice
C28_WitnessSameRequest ==
    /\ toasts = << "RequestAccepted" >>
    /\ Len(messages) = 3
    /\ messages[1].isRequest
    /\ \A i \in 2 .. 3 : ~messages[i].isRequest
                            /\ messages[i].bookId = messages[1].bookId


\* The session is absent or one of the user records
SessionIsUser(us, cu) == cu = Null \/ \E i \in DOMAIN us : us[i] = cu

\* C29: in every state the session is absent or equal to a record of the
\* user set; a registration that stores a user makes that new user the
\* session, a login that succeeds makes the matched user the session, and
\* logout leaves no session whatever the session was.
C29_SessionIsAUser ==
    [][ /\ SessionIsUser(users, currentUser)
        /\ SessionIsUser(users', currentUser')
        /\ \A userData \in UserInputs :
              (registerUser(userData) /\ users' # users)
              => /\ Len(users') = Len(users) + 1
                 /\ currentUser' = users'[Len(users')]
                 /\ currentUser'.email = userData.email
        /\ \A email \in Emails, password \in Passwords :
              (loginUser(email, password)
                  /\ toasts' = << "LoginSuccessful" >>)
              => \E i \in DOMAIN users :
                    /\ users[i].email = email
                    /\ users[i].password = password
                    /\ currentUser' = users[i]
        /\ logoutUser => currentUser' = Null
      ]_vars

\* C29 witness: a user who registered while John was logged in is the
\* session and the last record of the user set.
C29_Witness ==
    /\ toasts = << "RegistrationSuccessful" >>
    /\ Len(users) > Len(initialUsers)
    /\ currentUser = users[Len(users)]
    /\ \E b \in Range(books) : b.ownerId = 1


\* ms and after hold the same messages but for their isRead flags
SameButFlags(ms, after) ==
    /\ Len(after) = Len(ms)
    /\ \A i \in DOMAIN ms : Unflagged(after[i]) = Unflagged(ms[i])

\* Selecting the conversation with p has marked what p sent the session
MarksPartner(p) ==
    \A i \in DOMAIN messages :
       (messages[i].senderId = p /\ messages[i].receiverId = currentUser.id)
       => messages'[i].isRead

\* Selecting the conversation with p has left every other message as it was
KeepsOthers(p) ==
    \A i \in DOMAIN messages :
       ~(messages[i].senderId = p /\ messages[i].receiverId = currentUser.id)
       => messages'[i].isRead = messages[i].isRead

\* C30: when the session selects the conversation with partner P, every
\* message P sent to the session is read once the page has settled (the
\* unread count shown for P is 0), and every other message, those of other
\* partners and those the session sent, keeps its isRead flag.
C30_SelectMarksOnlyPartner ==
    [][ \A p \in ThreadReceivers :
          setSelectedConversation(p)
          => /\ SameButFlags(messages, messages')
             /\ MarksPartner(p)
             /\ \A e \in Range(conversationPartners(messages', currentUser')) :
                   e.partnerId = p => e.unreadCount = 0
             /\ KeepsOthers(p)
      ]_vars

\* C30 without the conversation of the session with itself and over
\* messages of pairwise distinct ids
C30_DistinctIdsOtherPartner ==
    [][ \A p \in ThreadReceivers :
          ( /\ setSelectedConversation(p)
            /\ p # currentUser.id
            /\ DistinctIds(messages) )
          => /\ SameButFlags(messages, messages')
             /\ MarksPartner(p)
             /\ KeepsOthers(p)
      ]_vars

\* C30, the marking alone
C30_PartnerRead ==
    [][ \A p \in ThreadReceivers :
          setSelectedConversation(p)
          => /\ MarksPartner(p)
             /\ \A e \in Range(conversationPartners(messages', currentUser')) :
                   e.partnerId = p => e.unreadCount = 0
      ]_vars

=============================================================================
